---- MODULE Spec2Model ----
(***************************************************************************)
(* pcalc: basic math operations for Unix pipes (src/pcalc.py).             *)
(*                                                                         *)
(* One behaviour of the model is one invocation of one subcommand: the     *)
(* interpreter is started, the handler calls _values(), then consumes the  *)
(* lazy value stream one element at a time and writes to stdout.           *)
(*                                                                         *)
(* Numbers.  A Python float is modelled as an exact rational n/d in lowest *)
(* terms with d > 0, together with the IEEE sign bit `neg`, which is the   *)
(* sign of n when n # 0 and distinguishes -0.0 from 0.0 when n = 0.  A     *)
(* Python int carries the tag "int" (it prints without a fractional part). *)
(* Rounding error, infinities and NaN are outside the modelled domain.     *)
(* A raised exception is a record whose tag is the exception's name.       *)
(***************************************************************************)
EXTENDS Integers, Sequences, FiniteSets, TLC

\* ------------------------------------------------------------- bounds
\* Longest input (in raw lines) of every command but median and rpow.
MaxLen == 3
\* Longest input of median: even and odd counts with a proper middle slice.
MaxMedianLen == 4
\* Longest input of rpow (its results grow as a tower of powers).
MaxPowLen == 3

\* ------------------------------------------------------------ numbers
IAbs(i) == IF i < 0 THEN -i ELSE i

RECURSIVE Gcd(_, _)
Gcd(a, b) == IF b = 0 THEN a ELSE Gcd(b, a % b)

RECURSIVE IPow(_, _)
IPow(b, e) == IF e = 0 THEN 1 ELSE b * IPow(b, e - 1)

\* The float n/d (d # 0); z is the sign bit the result gets when it is zero.
Signed(nn, dd, z) ==
    [t |-> "float", n |-> nn, d |-> dd, neg |-> IF nn = 0 THEN z ELSE nn < 0]
Reduced(n, d, g, z) ==
    Signed(IF d < 0 THEN -(n \div g) ELSE n \div g, IAbs(d) \div g, z)
MkFloat(n, d, z) == Reduced(n, d, Gcd(IAbs(n), IAbs(d)), z)

PyInt(k) == [t |-> "int", n |-> k, d |-> 1, neg |-> k < 0]

Raise(kind) == [t |-> kind, n |-> 0, d |-> 1, neg |-> FALSE]

IsNum(x) == x.t \in {"int", "float"}
IsZero(x) == x.n = 0
BothInt(a, b) == a.t = "int" /\ b.t = "int"

\* Python's ==, < on numbers: by numeric value (0.0 == -0.0, 7 == 7.0).
NumEq(a, b) == a.n * b.d = b.n * a.d
NumLt(a, b) == a.n * b.d < b.n * a.d

\* int(x): truncation toward zero; the sign of a zero is lost.
Trunc(x) == IF x.n >= 0 THEN x.n \div x.d ELSE -((-x.n) \div x.d)
int(x) == IF IsNum(x) THEN PyInt(Trunc(x)) ELSE x

\* float(x) of a number
ToFloat(x) == [x EXCEPT !.t = "float"]

\* operator.add
OpAdd(a, b) ==
    LET n == a.n * b.d + b.n * a.d
        d == a.d * b.d
    IN  IF BothInt(a, b) THEN PyInt(n)
        ELSE MkFloat(n, d, IsZero(a) /\ IsZero(b) /\ a.neg /\ b.neg)

\* unary minus
OpNeg(a) ==
    IF a.t = "int" THEN PyInt(-a.n) ELSE [a EXCEPT !.n = -a.n, !.neg = ~a.neg]

\* operator.sub
OpSub(a, b) == OpAdd(a, OpNeg(b))

\* operator.mul
OpMul(a, b) ==
    IF BothInt(a, b) THEN PyInt(a.n * b.n)
    ELSE MkFloat(a.n * b.n, a.d * b.d, a.neg # b.neg)

\* operator.truediv (from __future__ import division)
OpTrueDiv(a, b) ==
    IF IsZero(b) THEN Raise("ZeroDivisionError")
    ELSE MkFloat(a.n * b.d, a.d * b.n, a.neg # b.neg)

\* math.fmod(a, b): remainder with the sign of the dividend a; always a float
MathFmod(a, b) ==
    IF IsZero(b) THEN Raise("ValueError")
    ELSE LET q == Trunc(MkFloat(a.n * b.d, a.d * b.n, FALSE))
         IN  MkFloat(a.n * b.d - q * b.n * a.d, a.d * b.d, a.neg)

\* operator.mod on floats: remainder with the sign of the divisor b
ModSign(a, b, r) ==
    IF BothInt(a, b) THEN PyInt(r.n)
    ELSE IF IsZero(r) THEN [ToFloat(r) EXCEPT !.neg = b.neg]
    ELSE ToFloat(r)
ModAdjust(a, b, m) ==
    ModSign(a, b, IF ~IsZero(m) /\ (b.neg # m.neg) THEN OpAdd(m, ToFloat(b)) ELSE m)
OpMod(a, b) ==
    IF IsZero(b) THEN Raise("ZeroDivisionError")
    ELSE ModAdjust(a, b, MathFmod(a, b))

\* pow(a, b) for an integral exponent b (the only exponents of the model)
OpPow(a, b) ==
    LET e == b.n
    IN  IF e >= 0
        THEN IF BothInt(a, b) THEN PyInt(IPow(a.n, e))
             ELSE MkFloat(IPow(a.n, e), IPow(a.d, e), a.neg /\ e % 2 = 1)
        ELSE IF IsZero(a) THEN Raise("ZeroDivisionError")
             ELSE MkFloat(IPow(a.d, -e), IPow(a.n, -e), FALSE)

\* abs(x)
OpAbs(x) == [x EXCEPT !.n = IAbs(x.n), !.neg = FALSE]

\* math.ceil / math.floor: an int on Python 3, a float on Python 2
MathCeil(v, ver) ==
    LET k == -((-v.n) \div v.d)
    IN  IF ver = 3 THEN PyInt(k) ELSE MkFloat(k, 1, v.neg)
MathFloor(v, ver) ==
    LET k == v.n \div v.d
    IN  IF ver = 3 THEN PyInt(k) ELSE MkFloat(k, 1, v.neg)

\* The integer nearest to n/d (d > 0): ties go to the even neighbour on
\* Python 3 and away from zero on Python 2.
RoundInt(n, d, ver) ==
    LET f == n \div d
        twice == 2 * (n - f * d)
    IN  IF twice < d THEN f
        ELSE IF twice > d THEN f + 1
        ELSE IF ver = 3 THEN (IF f % 2 = 0 THEN f ELSE f + 1)
        ELSE (IF n >= 0 THEN f + 1 ELSE f)

\* round(x, precision): a float that keeps the sign of x
PyRound(x, precision, ver) ==
    IF precision >= 0
    THEN LET m == IPow(10, precision)
         IN  MkFloat(RoundInt(x.n * m, x.d, ver), m, x.neg)
    ELSE LET m == IPow(10, -precision)
         IN  MkFloat(RoundInt(x.n, x.d * m, ver) * m, 1, x.neg)

\* ------------------------------------------------------- input lines
\* Raw lines of stdin.  "  " is a whitespace-only line, "abc" is not a number.
Lines == {"  ", "abc", "0", "-0.0", "7", "-3", "2.5"}
NumLines == {"0", "-0.0", "7", "-3", "2.5"}
\* Lines given to rpow: integral exponents that keep the tower of powers small.
PowLines == {"  ", "abc", "0", "-0.0", "2", "-1"}

\* str.strip()
Strip(line) == IF line = "  " THEN "" ELSE line

\* float(v), raising ValueError on text that is no number
PyFloat(v) ==
    CASE v = "0"    -> Signed(0, 1, FALSE)
      [] v = "-0.0" -> Signed(0, 1, TRUE)
      [] v = "7"    -> Signed(7, 1, FALSE)
      [] v = "-3"   -> Signed(-3, 1, FALSE)
      [] v = "2.5"  -> Signed(5, 2, FALSE)
      [] v = "2"    -> Signed(2, 1, FALSE)
      [] v = "-1"   -> Signed(-1, 1, FALSE)
      [] OTHER      -> Raise("ValueError")

\* ---------------------------------------------------------- exceptions
NoError == [type |-> "none", msg |-> "", arg |-> ""]
ClickException(msg, arg) == [type |-> "ClickException", msg |-> msg, arg |-> arg]
Uncaught(type) == [type |-> type, msg |-> "", arg |-> ""]

EmptyInputError == ClickException("stdin didn't get any data.", "")
ParseError(v) == ClickException("Could not cast value to float: {}", v)
AmbiguousModeError == ClickException("Multiple mode's - unsure how to format.", "")

\* _cast_float(v): float(v), a ValueError becoming a ClickException naming v
OrClickException(f) == IF IsNum(f) THEN f ELSE Raise("ClickException")
cast_float(v) == OrClickException(PyFloat(v))

\* ------------------------------------------------------------ commands
Constants == {Signed(0, 1, FALSE), Signed(-3, 1, FALSE)}
Denominators == {Signed(0, 1, FALSE), Signed(2, 1, FALSE), Signed(-3, 1, FALSE)}
Precisions == {0, -1}
Expressions == {"((v + 1) * 10) % 3", "(a ** 2) + b", "a / b", "a +", "[a, b]"}

NoArg == Signed(0, 1, FALSE)
Cmd(name, constant, precision, flag, expression) ==
    [name |-> name, constant |-> constant, precision |-> precision,
     flag |-> flag, expression |-> expression]

PlainReducers == {"sum", "radd", "rsub", "rmul", "rdiv", "rpow", "min", "max"}
Collectors == {"mean", "median", "mode"}
ConstantStreamers == {"add", "sub", "mul", "div", "pow"}
PlainStreamers == {"ceil", "floor", "abs"}

Commands ==
    {Cmd(nm, NoArg, 0, FALSE, "") : nm \in PlainReducers \cup Collectors \cup PlainStreamers}
    \cup {Cmd(nm, c, 0, FALSE, "") : nm \in ConstantStreamers, c \in Constants}
    \cup {Cmd("mod", c, 0, f, "") : c \in Denominators, f \in BOOLEAN}
    \cup {Cmd("rmod", NoArg, 0, f, "") : f \in BOOLEAN}
    \cup {Cmd("round", NoArg, p, FALSE, "") : p \in Precisions}
    \cup {Cmd("eval", NoArg, 0, f, e) : f \in BOOLEAN, e \in Expressions}

IsStreaming(c) ==
    \/ c.name \in ConstantStreamers \cup PlainStreamers \cup {"mod", "round"}
    \/ c.name = "eval" /\ ~c.flag
IsFold(c) ==
    \/ c.name \in PlainReducers \cup {"rmod"}
    \/ c.name = "eval" /\ c.flag
IsCollect(c) == c.name \in Collectors

SeqsUpTo(S, n) == UNION {[1..k -> S] : k \in 0..n}

Inputs(c) ==
    IF c.name = "rpow" THEN SeqsUpTo(PowLines, MaxPowLen)
    ELSE IF c.name = "median"
         THEN SeqsUpTo(Lines, MaxLen) \cup SeqsUpTo(NumLines, MaxMedianLen)
    ELSE SeqsUpTo(Lines, MaxLen)

PyVersions == {2, 3}

\* --------------------------------------------------------------- state
VARIABLES
    py,       \* sys.version_info.major of the interpreter running the module
    cmd,      \* the subcommand invoked, with its arguments and flags
    input,    \* all raw lines of stdin, as given
    stdin,    \* raw lines of stdin not yet read
    pending,  \* the [first] of it.chain([first], stream) while not yet consumed
    pc,       \* "start": handler entered; "iter": consuming values; "done"
    acc,      \* reduce()'s accumulator / eval_'s result / the values collected
    idx,      \* values taken by the loop body so far (eval_'s enumerate index)
    nevals,   \* calls of eval() made
    parsed,   \* values _cast_float has returned so far, in order
    out,      \* what has been written to stdout, in order
    pipe,     \* stdout: "open", "closed" (reader gone), "failed" (other error)
    broke,    \* "none", or the pipe state met by the write that failed
    raisedIn, \* "none", or where the exception that ended the command arose
    err,      \* the exception that ended the command, NoError if none
    exit      \* exit status: -1 while running
vars == <<py, cmd, input, stdin, pending, pc, acc, idx, nevals, parsed, out,
          pipe, broke, raisedIn, err, exit>>

Init ==
    /\ py \in PyVersions
    /\ cmd \in Commands
    /\ input \in Inputs(cmd)
    /\ stdin = input
    /\ pending = <<>>
    /\ pc = "start"
    /\ acc = <<>>
    /\ idx = 0
    /\ nevals = 0
    /\ parsed = <<>>
    /\ out = <<>>
    /\ pipe = "open"
    /\ broke = "none"
    /\ raisedIn = "none"
    /\ err = NoError
    /\ exit = -1

\* ------------------------------------------------------- value source
\* filter(op.methodcaller('strip'), stream) then filter(None, stream): the
\* raw lines from the first one that survives both filters on.
RECURSIVE SkipBlank(_)
SkipBlank(s) ==
    IF s = <<>> THEN <<>>
    ELSE IF Strip(Head(s)) # "" /\ Head(s) # "" THEN s
    ELSE SkipBlank(Tail(s))

\* next(stream) on map(_cast_float, <filtered stdin>) reading from lines s
Pulled(t, f, fresh) ==
    IF IsNum(f)
    THEN [k |-> "value", v |-> f, line |-> Head(t), rest |-> Tail(t), fresh |-> fresh]
    ELSE [k |-> "raise", v |-> NoArg, line |-> Head(t), rest |-> Tail(t), fresh |-> fresh]
NextOfLines(t) ==
    IF t = <<>>
    THEN [k |-> "stop", v |-> NoArg, line |-> "", rest |-> <<>>, fresh |-> TRUE]
    ELSE Pulled(t, cast_float(Head(t)), TRUE)
NextOfStream(s) == NextOfLines(SkipBlank(s))

\* next() on it.chain([first], stream)
NextOfChain ==
    IF pending # <<>>
    THEN [k |-> "value", v |-> Head(pending), line |-> "", rest |-> stdin, fresh |-> FALSE]
    ELSE NextOfStream(stdin)

\* The command ends with an exception.
Fail(e, where) ==
    /\ pc' = "done"
    /\ err' = e
    /\ raisedIn' = where
    /\ exit' = 1

\* The command returns normally.
Return ==
    /\ pc' = "done"
    /\ exit' = 0
    /\ UNCHANGED <<err, raisedIn>>

\* _values(): builds the lazy stream and pulls its first value.
First(r) ==
    /\ stdin' = r.rest
    /\ CASE r.k = "stop" ->
              /\ Fail(EmptyInputError, "values")
              /\ UNCHANGED <<pending, parsed>>
         [] r.k = "raise" ->
              /\ Fail(ParseError(r.line), "values")
              /\ UNCHANGED <<pending, parsed>>
         [] r.k = "value" ->
              /\ pending' = <<r.v>>
              /\ parsed' = Append(parsed, r.v)
              /\ pc' = "iter"
              /\ UNCHANGED <<err, raisedIn, exit>>

\* The lines of s that survive the two filters, in order.
Surviving(s) == SelectSeq(s, LAMBDA line : Strip(line) # "" /\ line # "")

\* The position in lines of the first line that is no number, 0 if none.
FirstBad(lines) ==
    IF \A i \in 1..Len(lines) : IsNum(PyFloat(lines[i])) THEN 0
    ELSE CHOOSE i \in 1..Len(lines) :
            /\ ~IsNum(PyFloat(lines[i]))
            /\ \A j \in 1..(i - 1) : IsNum(PyFloat(lines[j]))

\* A faulty variant of values: the stream is returned without pulling its first value.
values_lazy ==
    /\ pc = "start"
    /\ pc' = "iter"
    /\ UNCHANGED <<py, cmd, input, stdin, pending, acc, idx, nevals, parsed, out,
                   pipe, broke, raisedIn, err, exit>>

\* A faulty variant of values: every line is cast before the first value is handed
\* out (a list-building map()).
values_eager ==
    /\ pc = "start"
    /\ IF FirstBad(Surviving(stdin)) > 1
       THEN /\ Fail(ParseError(Surviving(stdin)[FirstBad(Surviving(stdin))]), "values")
            /\ UNCHANGED <<stdin, pending, parsed>>
       ELSE First(NextOfStream(stdin))
    /\ UNCHANGED <<py, cmd, input, acc, idx, nevals, out, pipe, broke>>

values ==
    /\ pc = "start"
    /\ First(NextOfStream(stdin))
    /\ UNCHANGED <<py, cmd, input, acc, idx, nevals, out, pipe, broke>>

\* -------------------------------------------------------------- output
\* What leaves _echo(x) when click.echo(x) cannot write.  Python 2: the
\* handler evaluates e.lower() on the IOError instance, which has no such
\* attribute.  Python 3: _echo is click.echo itself, nothing is caught.
EchoRaises ==
    IF py = 2 THEN "AttributeError"
    ELSE IF pipe = "closed" THEN "BrokenPipeError"
    ELSE "OSError"

\* _echo(x), followed by `then` when _echo returns.
echo(x, then) ==
    IF pipe = "open"
    THEN /\ out' = Append(out, x)
         /\ broke' = broke
         /\ then
    ELSE /\ out' = out
         /\ broke' = pipe
         /\ Fail(Uncaught(EchoRaises), "echo")

\* ---------------------------------------------------- --fmod callback
\* _cb_fmod(ctx, param, value) returns lambda a, b: int(func(a, b))
cb_fmod(value, a, b) == int(IF value THEN MathFmod(a, b) ELSE OpMod(a, b))

\* ------------------------------------------------ expression evaluator
Unbound == Raise("NameError")
Scope(v, a, b) == [v |-> v, a |-> a, b |-> b]

\* eval(expression, local_scope, global_scope) for the expressions modelled
PyEval(expression, scope) ==
    CASE expression = "((v + 1) * 10) % 3" ->
            IF ~IsNum(scope.v) THEN Raise("NameError")
            ELSE OpMod(OpMul(OpAdd(scope.v, PyInt(1)), PyInt(10)), PyInt(3))
      [] expression = "(a ** 2) + b" ->
            IF ~IsNum(scope.a) \/ ~IsNum(scope.b) THEN Raise("NameError")
            ELSE OpAdd(OpPow(scope.a, PyInt(2)), scope.b)
      [] expression = "a / b" ->
            IF ~IsNum(scope.a) \/ ~IsNum(scope.b) THEN Raise("NameError")
            ELSE OpTrueDiv(scope.a, scope.b)
      [] expression = "[a, b]" ->
            IF ~IsNum(scope.a) \/ ~IsNum(scope.b) THEN Raise("NameError")
            ELSE Raise("list")
      [] OTHER -> Raise("SyntaxError")

\* _evaluate's check of eval()'s result: a number is returned, anything
\* else (a raised exception, a value of another type) ends in a ClickException
Checked(result) == IF IsNum(result) THEN result ELSE Raise("ClickException")

\* A faulty variant of evaluate: the names a and b are bound the wrong way round.
evaluate_swapped(expression, scope, line) ==
    Checked(PyEval(expression, Scope(scope.v, scope.b, scope.a)))

\* _evaluate(expression, local_scope, global_scope, line)
evaluate(expression, scope, line) == Checked(PyEval(expression, scope))

\* the ClickException _evaluate raises for what eval() gave
Translated(result) ==
    CASE result.t = "list" ->
           ClickException("Expression failed when processing line {} - output must be an int or float", "list")
      [] result.t = "NameError" ->
           ClickException("Expression attempted to access an object not present in the scope.", "")
      [] OTHER -> ClickException("{}", result.t)
evaluate_error(expression, scope, line) == Translated(PyEval(expression, scope))

\* The exception a failed computation ends the command with.
ErrorOf(c, r, scope, line) ==
    IF c.name = "eval" THEN evaluate_error(c.expression, scope, line)
    ELSE Uncaught(r.t)

\* ------------------------------------------------ streaming operators
\* The value a streaming command passes to _echo for input value v.
StreamFunc(c, v, ver, line) ==
    CASE c.name = "add"   -> OpAdd(v, c.constant)
      [] c.name = "sub"   -> OpSub(v, c.constant)
      [] c.name = "mul"   -> OpMul(v, c.constant)
      [] c.name = "div"   -> OpTrueDiv(v, c.constant)
      [] c.name = "pow"   -> OpPow(v, c.constant)
      [] c.name = "mod"   -> cb_fmod(c.flag, v, c.constant)
      [] c.name = "round" -> IF c.precision = 0 THEN int(PyRound(v, 0, ver))
                             ELSE PyRound(v, c.precision, ver)
      [] c.name = "ceil"  -> int(MathCeil(v, ver))
      [] c.name = "floor" -> int(MathFloor(v, ver))
      [] c.name = "abs"   -> OpAbs(v)
      [] c.name = "eval"  -> evaluate(c.expression, Scope(v, Unbound, Unbound), line)

\* The loop body on value v with r = f(v): _echo(r), or f's exception.
StreamBody(v, r, line) ==
    IF IsNum(r)
    THEN echo(r, UNCHANGED <<pc, err, raisedIn, exit>>)
    ELSE /\ Fail(ErrorOf(cmd, r, Scope(v, Unbound, Unbound), line), "iter")
         /\ UNCHANGED <<out, broke>>

\* One pass of the loop, p being what next() on the value stream gave.
StreamOn(p) ==
    /\ stdin' = p.rest
    /\ pending' = <<>>
    /\ CASE p.k = "stop" ->
              /\ Return
              /\ UNCHANGED <<parsed, idx, nevals, out, broke>>
         [] p.k = "raise" ->
              /\ Fail(ParseError(p.line), "iter")
              /\ UNCHANGED <<parsed, idx, nevals, out, broke>>
         [] p.k = "value" ->
              /\ parsed' = IF p.fresh THEN Append(parsed, p.v) ELSE parsed
              /\ idx' = idx + 1
              /\ nevals' = IF cmd.name = "eval" THEN nevals + 1 ELSE nevals
              /\ StreamBody(p.v, StreamFunc(cmd, p.v, py, idx + 1), idx + 1)

\* One pass of `for v in _values(): _echo(f(v))`.
StreamStep ==
    /\ pc = "iter"
    /\ IsStreaming(cmd)
    /\ StreamOn(NextOfChain)
    /\ UNCHANGED <<py, cmd, input, acc, pipe>>

\* -------------------------------------------------- left-fold reducers
\* A faulty variant of FoldOp: the operands are passed the wrong way round.
FoldOpFlipped(c, a, b, line) ==
    CASE c.name \in {"sum", "radd"} -> OpAdd(b, a)
      [] c.name = "rsub" -> OpSub(b, a)
      [] c.name = "rmul" -> OpMul(b, a)
      [] c.name = "rdiv" -> OpTrueDiv(b, a)
      [] OTHER -> a

\* function(acc, v) of reduce(function, _values()), of min()/max()'s scan
\* and of eval_'s reducing loop
FoldOp(c, a, b, line) ==
    CASE c.name \in {"sum", "radd"} -> OpAdd(a, b)
      [] c.name = "rsub" -> OpSub(a, b)
      [] c.name = "rmul" -> OpMul(a, b)
      [] c.name = "rdiv" -> OpTrueDiv(a, b)
      [] c.name = "rpow" -> OpPow(a, b)
      [] c.name = "rmod" -> cb_fmod(c.flag, a, b)
      [] c.name = "min"  -> IF NumLt(b, a) THEN b ELSE a
      [] c.name = "max"  -> IF NumLt(a, b) THEN b ELSE a
      [] c.name = "eval" -> evaluate(c.expression, Scope(Unbound, a, b), line)

\* A faulty variant of Initial: the fold starts from 0, as in the loop the group's
\* help text shows (output = 0; for v in values: output = output + v).
InitialFromZero(c, v) == FoldOp(c, PyInt(0), v, 0)

\* The accumulator after the first value: reduce() without initializer,
\* min()/max()'s first candidate, eval_'s `result = next(values)`.
Initial(c, v) == v

\* The accumulator a meets value v, r = function(a, v).
FoldBody(a, v, r, line) ==
    /\ idx' = idx + 1
    /\ nevals' = IF cmd.name = "eval" THEN nevals + 1 ELSE nevals
    /\ IF IsNum(r)
       THEN /\ acc' = <<r>>
            /\ UNCHANGED <<pc, err, raisedIn, exit>>
       ELSE /\ Fail(ErrorOf(cmd, r, Scope(Unbound, a, v), line), "iter")
            /\ UNCHANGED acc

\* One pull of the fold, p being what next() on the value stream gave.
FoldOn(p) ==
    /\ stdin' = p.rest
    /\ pending' = <<>>
    /\ CASE p.k = "stop" ->
              /\ echo(acc[1], Return)
              /\ UNCHANGED <<parsed, idx, nevals, acc>>
         [] p.k = "raise" ->
              /\ Fail(ParseError(p.line), "iter")
              /\ UNCHANGED <<parsed, idx, nevals, acc, out, broke>>
         [] p.k = "value" ->
              /\ parsed' = IF p.fresh THEN Append(parsed, p.v) ELSE parsed
              /\ UNCHANGED <<out, broke>>
              /\ IF acc = <<>>
                 THEN /\ acc' = <<Initial(cmd, p.v)>>
                      /\ UNCHANGED <<idx, nevals, pc, err, raisedIn, exit>>
                 ELSE FoldBody(acc[1], p.v, FoldOp(cmd, acc[1], p.v, idx + 1), idx + 1)

\* One pull of the fold: the next value is folded in, or the stream is
\* exhausted and the accumulator is written.
FoldStep ==
    /\ pc = "iter"
    /\ IsFold(cmd)
    /\ FoldOn(NextOfChain)
    /\ UNCHANGED <<py, cmd, input, pipe>>

\* --------------------------------------------- mean, median and mode
\* sum(values): the builtin, which starts from the int 0
RECURSIVE PySum(_)
PySum(s) == IF s = <<>> THEN PyInt(0) ELSE OpAdd(PySum(SubSeq(s, 1, Len(s) - 1)), s[Len(s)])

\* x put into the ascending sequence s after every element not greater
RECURSIVE InsertSorted(_, _)
InsertSorted(s, x) ==
    IF s = <<>> THEN <<x>>
    ELSE IF NumLt(x, Head(s)) THEN <<x>> \o s
    ELSE <<Head(s)>> \o InsertSorted(Tail(s), x)

\* sorted(values): ascending and stable
RECURSIVE sorted(_)
sorted(s) ==
    IF s = <<>> THEN <<>>
    ELSE InsertSorted(sorted(SubSeq(s, 1, Len(s) - 1)), s[Len(s)])

\* values[start:stop] for 0 <= start
PySlice(s, start, stop) ==
    SubSeq(s, start + 1, IF stop < Len(s) THEN stop ELSE Len(s))

\* A faulty variant of MedianEven: the slice starts one element late.
MedianEvenShifted(ordered, stop) ==
    OpTrueDiv(PySum(PySlice(ordered, stop - 1, stop + 1)), PyInt(2))

\* median(), even count: start = stop - 2; middle = values[start:stop];
\* sum(middle) / 2
MedianEven(ordered, stop) ==
    OpTrueDiv(PySum(PySlice(ordered, stop - 2, stop)), PyInt(2))

\* median() on values = sorted(_values())
MedianOfSorted(ordered) ==
    IF Len(ordered) % 2 = 1
    THEN ordered[Trunc(OpTrueDiv(PyInt(Len(ordered) - 1), PyInt(2))) + 1]
    ELSE MedianEven(ordered, Trunc(OpTrueDiv(PyInt(Len(ordered)), PyInt(2))) + 1)

\* median(): what is passed to _echo
median(vals) == MedianOfSorted(sorted(vals))

\* mean(): what is passed to _echo
mean(vals) == OpTrueDiv(PySum(vals), PyInt(Len(vals)))

\* Counter: x counted into c, hit being the positions of the keys equal to x
Counted(c, x, hit) ==
    IF hit = {} THEN Append(c, <<x, 1>>)
    ELSE [i \in 1..Len(c) |-> IF i \in hit THEN <<c[i][1], c[i][2] + 1>> ELSE c[i]]
CounterAdd(c, x) == Counted(c, x, {i \in 1..Len(c) : NumEq(c[i][1], x)})

\* Counter(values): <<key, count>> pairs in first-seen order; a key is the
\* first value seen of those equal to it
RECURSIVE Counter(_)
Counter(s) ==
    IF s = <<>> THEN <<>>
    ELSE CounterAdd(Counter(SubSeq(s, 1, Len(s) - 1)), s[Len(s)])

\* pair x put into s, which is in descending order of count, after every
\* pair whose count is not smaller
RECURSIVE InsertByCount(_, _)
InsertByCount(s, x) ==
    IF s = <<>> THEN <<x>>
    ELSE IF x[2] > Head(s)[2] THEN <<x>> \o s
    ELSE <<Head(s)>> \o InsertByCount(Tail(s), x)

RECURSIVE SortByCount(_)
SortByCount(c) ==
    IF c = <<>> THEN <<>>
    ELSE InsertByCount(SortByCount(SubSeq(c, 1, Len(c) - 1)), c[Len(c)])

Take(s, n) == SubSeq(s, 1, IF n < Len(s) THEN n ELSE Len(s))

\* A faulty variant of most_common: the first n pairs, not ordered by count.
most_common_unordered(count, n) == Take(count, n)

\* Counter.most_common(n): the n pairs of highest count, ties in first-seen order
most_common(count, n) == Take(SortByCount(count), n)

\* len({c[-1] for c in top}) == 1
SameCount(top) == Cardinality({top[i][2] : i \in 1..Len(top)}) = 1

\* mode()'s test: the two most common elements have the same count
MultipleModes(count) == Len(count) > 1 /\ SameCount(most_common(count, 2))

\* mode() on count = Counter(_values()): what is passed to _echo, or the
\* ClickException raised
mode(count) ==
    IF MultipleModes(count) THEN Raise("ClickException")
    ELSE most_common(count, 1)[1][1]

\* What mean, median and mode compute from the values collected.
Statistic(c, vals) ==
    CASE c.name = "mean"   -> mean(vals)
      [] c.name = "median" -> median(vals)
      [] c.name = "mode"   -> mode(Counter(vals))

\* The statistic r is written, or mode's exception ends the command.
CollectEnd(r) ==
    IF IsNum(r)
    THEN echo(r, Return)
    ELSE /\ Fail(AmbiguousModeError, "iter")
         /\ UNCHANGED <<out, broke>>

\* One pull of the materialisation, p being what next() gave.
CollectOn(p) ==
    /\ stdin' = p.rest
    /\ pending' = <<>>
    /\ CASE p.k = "stop" ->
              /\ UNCHANGED <<parsed, acc>>
              /\ CollectEnd(Statistic(cmd, acc))
         [] p.k = "raise" ->
              /\ Fail(ParseError(p.line), "iter")
              /\ UNCHANGED <<parsed, acc, out, broke>>
         [] p.k = "value" ->
              /\ parsed' = IF p.fresh THEN Append(parsed, p.v) ELSE parsed
              /\ acc' = Append(acc, p.v)
              /\ UNCHANGED <<out, broke, pc, err, raisedIn, exit>>

\* One pull of tuple(_values()) / sorted(_values()) / Counter(_values()); at
\* exhaustion the statistic is computed and written.
CollectStep ==
    /\ pc = "iter"
    /\ IsCollect(cmd)
    /\ CollectOn(NextOfChain)
    /\ UNCHANGED <<py, cmd, input, idx, nevals, pipe>>

\* ---------------------------------------------------------- environment
\* The process reading the pipe exits: later writes meet a broken pipe.
ReaderExits ==
    /\ pc # "done"
    /\ pipe = "open"
    /\ pipe' = "closed"
    /\ UNCHANGED <<py, cmd, input, stdin, pending, pc, acc, idx, nevals, parsed,
                   out, broke, raisedIn, err, exit>>

\* stdout starts failing for another reason (a full disk, a closed descriptor).
OutputFails ==
    /\ pc # "done"
    /\ pipe = "open"
    /\ pipe' = "failed"
    /\ UNCHANGED <<py, cmd, input, stdin, pending, pc, acc, idx, nevals, parsed,
                   out, broke, raisedIn, err, exit>>

\* ------------------------------------------------------ specifications
Next == values \/ StreamStep \/ FoldStep \/ CollectStep

\* One invocation whose stdout accepts every write.
Spec == Init /\ [][Next]_vars

NextPipe == Next \/ ReaderExits \/ OutputFails

\* One invocation whose stdout may stop accepting writes at any moment.
SpecPipe == Init /\ [][NextPipe]_vars

\* =============================================================== claims
\* Vocabulary of the properties: the input as the command is meant to see it.
Lived == Surviving(input)
Count == Len(Lived)
AllNumbers == FirstBad(Lived) = 0
Floats(lines) == [i \in 1..Len(lines) |-> PyFloat(lines[i])]
Values == Floats(Lived)
Done == pc = "done"
PlusZero == Signed(0, 1, FALSE)
Named(nm) == cmd.name = nm

\* ------------------------------------------------------------------ C1
\* C1: for every subcommand, when no input line survives stripping the
\* command fails with the empty-input error, raised inside _values() before
\* any consumer has run, and nothing has been written to stdout.
C1_EmptyInputFailsEagerly ==
    Count = 0 =>
        \/ pc = "start" /\ out = <<>> /\ err = NoError
        \/ /\ Done
           /\ err = EmptyInputError
           /\ raisedIn = "values"
           /\ exit = 1
           /\ out = <<>>
           /\ parsed = <<>>
           /\ acc = <<>>
           /\ idx = 0

\* An all-blank input of several lines has ended in the empty-input error.
C1_Witness ==
    Done /\ Len(input) >= 2 /\ Count = 0 /\ err = EmptyInputError /\ Named("median")

\* ------------------------------------------------------------------ C2
SingleValueReducers ==
    {"radd", "sum", "rsub", "rmul", "rdiv", "rmod", "rpow", "min", "max", "mean", "median"}
OneValue == Done /\ cmd.name \in SingleValueReducers /\ Count = 1 /\ AllNumbers

\* C2 as stated: on a stream of exactly one value every one of these
\* reducers exits successfully and outputs that value unchanged.
C2_SingleValueUnchanged ==
    OneValue => exit = 0 /\ out = <<Values[1]>>

\* C2 amended: every one of them but mean outputs the value unchanged; mean
\* outputs (0 + x) / 1, which is x except that -0.0 is output as 0.0.
C2_SingleValueUnchangedButMeanZero ==
    OneValue =>
        /\ exit = 0
        /\ err = NoError
        /\ out = <<IF Named("mean") /\ IsZero(Values[1]) THEN PlusZero ELSE Values[1]>>

\* rmod, whose function casts to int, has output the single value 2.5 as it is.
C2_Witness ==
    Done /\ Named("rmod") /\ Lived = <<"2.5">> /\ out = <<Signed(5, 2, FALSE)>>

\* ------------------------------------------------------------------ C3
LeftFoldReducers == {"radd", "sum", "rsub", "rmul", "rdiv"}
BinOp(nm, a, b) ==
    CASE nm \in {"radd", "sum"} -> OpAdd(a, b)
      [] nm = "rsub" -> OpSub(a, b)
      [] nm = "rmul" -> OpMul(a, b)
      [] nm = "rdiv" -> OpTrueDiv(a, b)

\* op(...op(op(x1, x2), x3)..., xn), or the exception of the first
\* application that raises
ApplyIfNum(nm, a, b) == IF IsNum(a) THEN BinOp(nm, a, b) ELSE a
RECURSIVE LeftFold(_, _)
LeftFold(nm, xs) ==
    IF Len(xs) = 1 THEN xs[1]
    ELSE ApplyIfNum(nm, LeftFold(nm, SubSeq(xs, 1, Len(xs) - 1)), xs[Len(xs)])

SeveralValues == Done /\ cmd.name \in LeftFoldReducers /\ Count >= 2 /\ AllNumbers

\* C3 as stated: for every stream of n >= 2 values radd/sum, rsub, rmul and
\* rdiv output the left fold of their operator, and exactly one line.
C3_LeftFoldOutput ==
    SeveralValues => exit = 0 /\ out = <<LeftFold(cmd.name, Values)>>

\* What C3_LeftFoldAmended says of the left fold r of the values.
C3_Outcome(r) ==
    IF IsNum(r)
    THEN exit = 0 /\ err = NoError /\ out = <<r>>
    ELSE /\ Named("rdiv")
         /\ \E i \in 2..Count : IsZero(Values[i])
         /\ err = Uncaught("ZeroDivisionError")
         /\ exit = 1
         /\ out = <<>>

\* C3 amended: they output the left fold, one line, unless a division by
\* zero occurs: rdiv on a stream with a zero after the first value fails with
\* ZeroDivisionError and writes nothing.
C3_LeftFoldAmended ==
    SeveralValues => C3_Outcome(LeftFold(cmd.name, Values))

\* rsub of 7, -3, 2.5 is (7 - -3) - 2.5 = 7.5, not 7 - (-3 - 2.5) = 12.5.
C3_Witness ==
    Done /\ Named("rsub") /\ input = <<"7", "-3", "2.5">> /\ out = <<Signed(15, 2, FALSE)>>

\* ------------------------------------------------------------------ C4
\* C4: rmod without a flag on the stream 7, -3 exits with status 0 and
\* outputs a value equal to 1.0 (the remainder with the sign of the dividend).
C4_RmodDefaultIsDividendSigned ==
    (Done /\ cmd = Cmd("rmod", NoArg, 0, FALSE, "") /\ input = <<"7", "-3">>) =>
        /\ exit = 0
        /\ Len(out) = 1
        /\ NumEq(out[1], PyInt(1))

\* ------------------------------------------------------------------ C5
\* a comes before b in the ascending order that puts -0.0 before 0.0
Before(a, b) == NumLt(a, b) \/ (NumEq(a, b) /\ a.neg /\ ~b.neg)
Least(xs) == CHOOSE i \in 1..Len(xs) : \A j \in 1..Len(xs) : ~Before(xs[j], xs[i])
Without(xs, i) == SubSeq(xs, 1, i - 1) \o SubSeq(xs, i + 1, Len(xs))
MoveLeast(xs, i) == <<xs[i]>> \o Without(xs, i)

\* The values sorted ascending: a function of the values and how often each
\* occurs, not of their order.
RECURSIVE Ascending(_)
LeastFirst(xs) == <<Head(xs)>> \o Ascending(Tail(xs))
Ascending(xs) ==
    IF xs = <<>> THEN <<>> ELSE LeastFirst(MoveLeast(xs, Least(xs)))

\* s[(n-1)/2] for odd n, (s[n/2 - 1] + s[n/2]) / 2 for even n (0-indexed)
MiddleOf(s, n) ==
    IF n % 2 = 1 THEN s[((n - 1) \div 2) + 1]
    ELSE OpTrueDiv(OpAdd(s[n \div 2], s[(n \div 2) + 1]), PyInt(2))

MedianRun == Done /\ Named("median") /\ Count >= 1 /\ AllNumbers

\* C5 as stated: median outputs the middle element of the sorted values, or
\* the average of the two middle ones, whatever the order of the input.
C5_MedianIsMiddle ==
    MedianRun => exit = 0 /\ out = <<MiddleOf(Ascending(Values), Count)>>

\* C5 amended: median outputs one float numerically equal to that middle
\* value, whatever the order of the input; the code's slice is exactly the
\* two middle elements; only the sign of a zero result is not the formula's:
\* for even n it is always 0.0 (the sum starts from the int 0), for odd n it
\* is the zero the stable sort leaves in the middle.
C5_MedianIsMiddleNumerically ==
    MedianRun =>
        /\ exit = 0
        /\ err = NoError
        /\ Len(out) = 1
        /\ out[1].t = "float"
        /\ NumEq(out[1], MiddleOf(Ascending(Values), Count))
        /\ Count % 2 = 0 =>
              /\ PySlice(sorted(Values), (Count \div 2) - 1, (Count \div 2) + 1)
                    = <<sorted(Values)[Count \div 2], sorted(Values)[(Count \div 2) + 1]>>
              /\ IsZero(out[1]) => ~out[1].neg
        /\ Count % 2 = 1 => out[1] = sorted(Values)[((Count - 1) \div 2) + 1]

\* The median of 7, -3, 2.5, 0 is (0 + 2.5) / 2 = 1.25.
C5_Witness ==
    Done /\ Named("median") /\ input = <<"7", "-3", "2.5", "0">> /\ out = <<Signed(5, 4, FALSE)>>

\* ------------------------------------------------------------------ C6
Occurrences(x) == Cardinality({i \in 1..Count : NumEq(Values[i], x)})
\* the positions of the values that occur most often
MostFrequent ==
    {i \in 1..Count : \A j \in 1..Count : Occurrences(Values[j]) <= Occurrences(Values[i])}
OneMode == \A i, j \in MostFrequent : NumEq(Values[i], Values[j])
FirstOf(S) == CHOOSE i \in S : \A j \in S : i <= j

ModeRun == Done /\ Named("mode") /\ Count >= 1 /\ AllNumbers

\* C6: mode outputs x exactly when x is the only value attaining the maximum
\* occurrence count; when two or more distinct values share it the command
\* fails with the ambiguous-mode error and writes nothing.
C6_ModeUniqueOrError ==
    ModeRun =>
        IF OneMode
        THEN exit = 0 /\ err = NoError /\ out = <<Values[FirstOf(MostFrequent)]>>
        ELSE exit = 1 /\ err = AmbiguousModeError /\ out = <<>>

\* Three distinct values tie: the command has failed without output.
C6_Witness ==
    Done /\ Named("mode") /\ input = <<"7", "-3", "2.5">> /\ err = AmbiguousModeError

\* ------------------------------------------------------------------ C7
BadAt == FirstBad(Lived)
Good == Floats(SubSeq(Lived, 1, BadAt - 1))
\* what a streaming command writes for the values xs, had none failed
Results(xs) == [i \in 1..Len(xs) |-> StreamFunc(cmd, xs[i], py, i)]
\* the position of the first result that is an exception, 0 if none
FirstFailure(rs) ==
    IF \A i \in 1..Len(rs) : IsNum(rs[i]) THEN 0
    ELSE CHOOSE i \in 1..Len(rs) : ~IsNum(rs[i]) /\ \A j \in 1..(i - 1) : IsNum(rs[j])
\* the fold of xs by the command's function, or its first exception
FoldIfNum(a, b, line) == IF IsNum(a) THEN FoldOp(cmd, a, b, line) ELSE a
RECURSIVE Folded(_)
Folded(xs) ==
    IF Len(xs) <= 1 THEN PlusZero
    ELSE IF Len(xs) = 2 THEN FoldOp(cmd, xs[1], xs[2], 1)
    ELSE FoldIfNum(Folded(SubSeq(xs, 1, Len(xs) - 1)), xs[Len(xs)], Len(xs) - 1)

\* A streaming command never holds more than one parsed value not yet written.
OnePending == IsStreaming(cmd) => Len(parsed) <= Len(out) + 1

\* C7 as stated: when the k-th surviving line is the first that is no
\* number, the command fails with the parse error naming it; a streaming
\* command has written exactly the k-1 results before it, any other nothing.
C7_ParseErrorAfterResults ==
    /\ OnePending
    /\ (Done /\ BadAt > 0) =>
          /\ exit = 1
          /\ err = ParseError(Lived[BadAt])
          /\ out = IF IsStreaming(cmd) THEN Results(Good) ELSE <<>>

\* What C7_ParseErrorUnlessEarlierFailure says of a streaming command whose
\* results for the values before the bad line are rs, the f-th failing.
C7_Streamed(rs, f) ==
    IF f = 0
    THEN err = ParseError(Lived[BadAt]) /\ out = rs
    ELSE err = ErrorOf(cmd, rs[f], Scope(Good[f], Unbound, Unbound), f)
         /\ out = SubSeq(rs, 1, f - 1)

\* C7 amended: the same, unless computing with an earlier value raises (a
\* division or modulo by zero, zero to a negative power, a failing
\* expression): then the command has already failed with that error on the
\* first such value, a streaming command having written the results before
\* it; in every case nothing is written for the bad line or a later one.
C7_ParseErrorUnlessEarlierFailure ==
    /\ OnePending
    /\ (Done /\ BadAt > 0) =>
          /\ exit = 1
          /\ Len(out) < BadAt
          /\ BadAt = 1 => err = ParseError(Lived[1]) /\ raisedIn = "values"
          /\ IsStreaming(cmd) => C7_Streamed(Results(Good), FirstFailure(Results(Good)))
          /\ ~IsStreaming(cmd) => out = <<>>
          /\ IsCollect(cmd) => err = ParseError(Lived[BadAt])
          /\ IsFold(cmd) =>
                IF IsNum(Folded(Good)) THEN err = ParseError(Lived[BadAt])
                ELSE err.type # "none" /\ err # ParseError(Lived[BadAt])

\* add has written the results for 7 and 2.5 and failed on the third line.
C7_Witness ==
    /\ Done /\ Named("add") /\ input = <<"7", "2.5", "abc">>
    /\ Len(out) = 2 /\ err = ParseError("abc")

\* ------------------------------------------------------------------ C8
\* a after the loop: a = x1, then a = expression(a, xi) for i = 2..n, or
\* the first value of eval() that is no number
EvalIfNum(expression, a, b) ==
    IF IsNum(a) THEN PyEval(expression, Scope(Unbound, a, b)) ELSE a
RECURSIVE EvalReduce(_, _)
EvalReduce(expression, xs) ==
    IF Len(xs) = 1 THEN xs[1]
    ELSE EvalIfNum(expression, EvalReduce(expression, SubSeq(xs, 1, Len(xs) - 1)), xs[Len(xs)])

C8_Outcome(r) ==
    IF IsNum(r)
    THEN exit = 0 /\ err = NoError /\ out = <<r>> /\ nevals = Count - 1
    ELSE exit = 1 /\ err = Translated(r) /\ out = <<>> /\ nevals < Count

\* C8: eval --reduce starts a at x1, evaluates the expression once per
\* further value with a the accumulator and b the value, and writes the final
\* a; with one value the expression is never evaluated; if a step fails,
\* nothing is written.
C8_EvalReduce ==
    /\ (Named("eval") /\ cmd.flag /\ ~Done) => out = <<>>
    /\ (Named("eval") /\ cmd.flag /\ Done /\ Count >= 1) =>
          IF AllNumbers
          THEN C8_Outcome(EvalReduce(cmd.expression, Values))
          ELSE exit = 1 /\ out = <<>>
    /\ (Named("eval") /\ cmd.flag /\ Done /\ Count = 1 /\ AllNumbers) =>
          nevals = 0 /\ out = <<Values[1]>>

\* "(a ** 2) + b" on -3, 7 has given (-3) ** 2 + 7 = 16 after one evaluation.
C8_Witness ==
    /\ Done /\ Named("eval") /\ cmd.flag /\ cmd.expression = "(a ** 2) + b"
    /\ input = <<"-3", "7">> /\ out = <<Signed(16, 1, FALSE)>> /\ nevals = 1

\* ------------------------------------------------------------------ C9
\* C9: a write that fails only because the reader of the pipe has gone is
\* swallowed by _echo: no exception leaves _echo and the exit status is 0;
\* any other write failure is fatal.
C9_BrokenPipeSwallowed ==
    /\ broke = "closed" => err = NoError /\ raisedIn # "echo" /\ exit # 1
    /\ broke = "failed" => err # NoError /\ exit = 1

\* ----------------------------------------------------------------- C10
\* the sign of r follows that of x, or r is zero
SignFollows(r, x) == IsZero(r) \/ (r.neg = x.neg)

\* C10: for mod (and rmod on two values or more) the result is written as a
\* float with --fmod and as an integer without it; its sign follows the
\* denominator by default and the dividend with --fmod, or it is zero.
C10_FmodChangesOutputType ==
    /\ (Named("mod") /\ out # <<>>) =>
          \A i \in 1..Len(out) :
              /\ out[i].t = IF cmd.flag THEN "float" ELSE "int"
              /\ SignFollows(out[i], IF cmd.flag THEN parsed[i] ELSE cmd.constant)
    /\ (Named("rmod") /\ Done /\ Len(parsed) >= 2 /\ out # <<>>) =>
          out[1].t = IF cmd.flag THEN "float" ELSE "int"

====
